---- MODULE Spec2Model ----
(***************************************************************************)
(* Model of src/index.js: the Express application that accepts             *)
(* POST /tasks (a batch of files to create or update through Octokit) and  *)
(* GET /health.                                                            *)
(*                                                                         *)
(* JavaScript runs a handler to completion between two awaits, so every    *)
(* action below is one synchronous segment of the code: from the arrival   *)
(* of the request in a middleware or handler up to the next await (or the  *)
(* response), and from the settlement of an awaited call up to the next    *)
(* await (or the response).                                                *)
(***************************************************************************)
EXTENDS Integers, Sequences, FiniteSets, TLC

\* --------------------------------------------------------------- bounds
\* Longest `files` array of a request body.
MaxFiles == 2

\* ------------------------------------------------------------ JS values
\* A JSON value of the body, as far as the handler looks at it: its type
\* and its value.  Paths carry their text, contents their characters
\* (a sequence of ASCII codes).
Undefined == [t |-> "undefined", v |-> ""]
PathStr(s) == [t |-> "string", v |-> s]
PathNum(s) == [t |-> "number", v |-> s]
NoContent == [t |-> "undefined", v |-> <<>>]
NullContent == [t |-> "null", v |-> <<>>]
ContentStr(codes) == [t |-> "string", v |-> codes]

\* !x for the values a path can take.
Falsy(x) ==
  \/ x.t \in {"undefined", "null"}
  \/ x.t = "string" /\ x.v = ""
  \/ x.t = "number" /\ x.v = "0"
  \/ x.t = "boolean" /\ x.v = "false"

\* typeof x === 'undefined'
TypeofUndefined(x) == x.t = "undefined"

\* The path as Octokit puts it in the URL of the call: String(path).
PathKey(p) == p.v

\* ------------------------------------------------------- Buffer / base64
\* The ASCII code of the base64 digit i (0..63).
B64Char(i) ==
  IF i < 26 THEN 65 + i
  ELSE IF i < 52 THEN 97 + (i - 26)
  ELSE IF i < 62 THEN 48 + (i - 52)
  ELSE IF i = 62 THEN 43
  ELSE 47

\* The value of a base64 digit, -1 for a character that is none.
B64Val(c) ==
  IF c >= 65 /\ c <= 90 THEN c - 65
  ELSE IF c >= 97 /\ c <= 122 THEN c - 97 + 26
  ELSE IF c >= 48 /\ c <= 57 THEN c - 48 + 52
  ELSE IF c = 43 \/ c = 45 THEN 62
  ELSE IF c = 47 \/ c = 95 THEN 63
  ELSE -1

\* The characters of s before its first '=' (code 61).
RECURSIVE UpToPad(_)
UpToPad(s) ==
  IF s = <<>> \/ Head(s) = 61 THEN <<>> ELSE <<Head(s)>> \o UpToPad(Tail(s))

\* The digits of s, characters outside the alphabet dropped.
RECURSIVE Sextets(_)
Sextets(s) ==
  IF s = <<>> THEN <<>>
  ELSE IF B64Val(Head(s)) < 0 THEN Sextets(Tail(s))
  ELSE <<B64Val(Head(s))>> \o Sextets(Tail(s))

\* The bytes a sequence of base64 digits stands for.
RECURSIVE BytesOfSextets(_)
BytesOfSextets(d) ==
  IF Len(d) < 2 THEN <<>>
  ELSE IF Len(d) = 2 THEN <<d[1] * 4 + d[2] \div 16>>
  ELSE IF Len(d) = 3
    THEN <<d[1] * 4 + d[2] \div 16, (d[2] % 16) * 16 + d[3] \div 4>>
  ELSE <<d[1] * 4 + d[2] \div 16, (d[2] % 16) * 16 + d[3] \div 4,
         (d[3] % 4) * 64 + d[4]>> \o BytesOfSextets(SubSeq(d, 5, Len(d)))

\* Buffer.from(content, encoding) for a string content.
BufferFrom(content, encoding) ==
  IF encoding = "base64" THEN BytesOfSextets(Sextets(UpToPad(content.v)))
  ELSE content.v

\* Whether Buffer.from(content, ...) throws a TypeError: it takes a string
\* (or a buffer, an array), not null, a number or a boolean.
BufferFromThrows(content) == content.t # "string"

\* buffer.toString('base64')
RECURSIVE ToBase64(_)
ToBase64(b) ==
  IF b = <<>> THEN <<>>
  ELSE IF Len(b) = 1
    THEN <<B64Char(b[1] \div 4), B64Char((b[1] % 4) * 16), 61, 61>>
  ELSE IF Len(b) = 2
    THEN <<B64Char(b[1] \div 4), B64Char((b[1] % 4) * 16 + b[2] \div 16),
           B64Char((b[2] % 16) * 4), 61>>
  ELSE <<B64Char(b[1] \div 4), B64Char((b[1] % 4) * 16 + b[2] \div 16),
         B64Char((b[2] % 16) * 4 + b[3] \div 64), B64Char(b[3] % 64)>>
       \o ToBase64(SubSeq(b, 4, Len(b)))

\* -------------------------------------------------------- configuration
\* TARGET_BRANCH || 'main'
BRANCH == "main"

\* The default of commitMessage in the destructuring of the body.
DefaultCommitMessage == "Agent: generate files"

\* The values ALLOWED_ORIGINS can have after the split/trim/filter: no
\* entry, one origin, an origin and a source address.
AllowLists ==
  { {}, {"https://a.example"}, {"https://a.example", "10.0.0.1"} }

\* ---------------------------------------------------------------- inputs
Reqs == {"r1", "r2"}

Routes == {"POST /tasks", "GET /health"}

\* The Origin header of a request; "" when the request has none.
NoOrigin == ""
Origins == {NoOrigin, "https://a.example", "https://b.example"}

\* req.ip
Ips == {"10.0.0.1", "10.0.0.2"}

\* An element of `files`: null, or an object with (possibly missing) path,
\* content and encoding.  encoding "" is a missing encoding.
NullEntry ==
  [obj |-> FALSE, path |-> Undefined, content |-> NoContent, encoding |-> ""]
FileObject(path, content, encoding) ==
  [obj |-> TRUE, path |-> path, content |-> content, encoding |-> encoding]

\* "hi" and its base64 form "aGk=".
Hi == <<104, 105>>
HiBase64 == <<97, 71, 107, 61>>

Entries ==
  { NullEntry,
    FileObject(Undefined, ContentStr(Hi), ""),
    FileObject(PathStr(""), ContentStr(Hi), ""),
    FileObject(PathStr("a"), NoContent, ""),
    FileObject(PathStr("a"), ContentStr(<<>>), ""),
    FileObject(PathStr("a"), ContentStr(HiBase64), "base64"),
    FileObject(PathStr("a"), NullContent, ""),
    FileObject(PathNum("7"), ContentStr(Hi), "") }

RECURSIVE SeqsUpTo(_, _)
SeqsUpTo(S, n) ==
  IF n = 0 THEN { <<>> }
  ELSE LET shorter == SeqsUpTo(S, n - 1)
       IN shorter \cup { Append(q, e) : q \in shorter, e \in S }

\* req.body.files: missing, something that is no array, or an array.
FilesMissing == [t |-> "undefined", items |-> <<>>]
FilesNotArray == [t |-> "string", items |-> <<>>]
FilesArray(items) == [t |-> "array", items |-> items]
Bodies ==
  {FilesMissing, FilesNotArray}
    \cup { FilesArray(q) : q \in SeqsUpTo(Entries, MaxFiles) }

\* ------------------------------------------------------ remote repository
\* The paths of the target branch the requests can touch.
RepoPaths == {"a", "7"}

\* The revision marker of a file is the hash of its content; no marker
\* (sha undefined) is the empty sequence.
NoSha == <<>>
BlobSha(bytes) == <<bytes>>

AbsentPath == [kind |-> "absent", content |-> <<>>]
Directory == [kind |-> "dir", content |-> <<>>]
File(bytes) == [kind |-> "file", content |-> bytes]

InitialRepos ==
  { [p \in RepoPaths |-> IF p = "a" THEN x ELSE AbsentPath] :
      x \in {AbsentPath, Directory, File(<<111>>)} }

\* ----------------------------------------------------------------- state
VARIABLES
  ALLOWED_ORIGINS,  \* the allow-list, read once at startup
  repo,             \* the target branch of the remote repository
  repo0,            \* the target branch as it was when the server started
  commits,          \* the number of commits the remote repository holds
  route,            \* per request: method and path
  origin,           \* per request: the Origin header
  ip,               \* per request: req.ip
  files,            \* per request: req.body.files
  pc,               \* per request: where its handling stands
  idx,              \* per request: the index of the file being processed
  results,          \* per request: the handler's results array
  calls,            \* per request: the Octokit calls issued, in order
  responses         \* per request: the responses sent, in order

vars ==
  <<ALLOWED_ORIGINS, repo, repo0, commits, route, origin, ip, files, pc, idx,
    results, calls, responses>>

input == <<ALLOWED_ORIGINS, repo0, route, origin, ip, files>>

\* ------------------------------------------------------------- responses
\* res.status(code).json({ error: message })
ErrorResponse(code, message) ==
  [status |-> code, kind |-> "error", error |-> message, results |-> <<>>]

\* res.json({ ok: true, results })
ResultsResponse(res) ==
  [status |-> 200, kind |-> "results", error |-> "", results |-> res]

\* res.send({ status: 'ok' })
HealthResponse ==
  [status |-> 200, kind |-> "health", error |-> "", results |-> <<>>]

\* What Express answers when a middleware hands an error to next(): its
\* default error handler sends status 500 with the error's text.
ExpressErrorResponse(message) ==
  [status |-> 500, kind |-> "express-error", error |-> message,
   results |-> <<>>]

\* --------------------------------------------------------------- results
\* A key the object does not have.
Absent == "<absent>"
NoCommit == 0
NullPath == [t |-> "null", v |-> ""]

\* { path: f.path || null, status: 'skipped', reason: 'invalid file object' }
SkippedResult(f) ==
  [path |-> IF Falsy(f.path) THEN NullPath ELSE f.path, status |-> "skipped",
   reason |-> "invalid file object", message |-> Absent,
   commitSha |-> NoCommit]

\* { path: f.path, status: 'ok', commitSha: createRes.data.commit.sha }
OkResult(f, commitSha) ==
  [path |-> f.path, status |-> "ok", reason |-> Absent, message |-> Absent,
   commitSha |-> commitSha]

\* { path: f.path, status: 'error', message: err.message }
ErrorResult(f, message) ==
  [path |-> f.path, status |-> "error", reason |-> Absent,
   message |-> message, commitSha |-> NoCommit]

\* ----------------------------------------------------------- Octokit calls
\* octokit.repos.getContent({ owner, repo, path: f.path, ref: branch })
GetContentCall(i, f) ==
  [op |-> "getContent", idx |-> i, path |-> f.path, branch |-> BRANCH,
   message |-> Absent, content |-> <<>>, sha |-> NoSha,
   outcome |-> "pending", returned |-> NoSha, found |-> ""]

\* octokit.repos.createOrUpdateFileContents({ owner, repo, path: f.path,
\*   message: commitMessage, content: encoded, branch, sha })
CreateOrUpdateCall(i, f, sha) ==
  [op |-> "createOrUpdateFileContents", idx |-> i, path |-> f.path,
   branch |-> BRANCH, message |-> DefaultCommitMessage,
   content |-> ToBase64(BufferFrom(f.content, f.encoding)), sha |-> sha,
   outcome |-> "pending", returned |-> NoSha, found |-> ""]

\* ------------------------------------------------------------ middleware
\* corsOptions.origin: whether the callback is given (null, true).
CorsOriginAllows(o) ==
  IF o = NoOrigin THEN TRUE
  ELSE ALLOWED_ORIGINS = {} \/ o \in ALLOWED_ORIGINS

\* isOriginAllowed(req)
isOriginAllowed(r) ==
  LET o == IF origin[r] # NoOrigin THEN origin[r] ELSE ip[r]
  IN IF ALLOWED_ORIGINS = {} THEN TRUE
     ELSE o \in ALLOWED_ORIGINS \/ ip[r] \in ALLOWED_ORIGINS

\* ------------------------------------------------------- the handler's loop
\* Where a synchronous segment of the handler ends: the new position, the
\* results so far, the response sent (if any) and the call issued (if any).
Segment(p, i, res, resp, call) ==
  [pc |-> p, idx |-> i, results |-> res, responses |-> resp, calls |-> call]

\* The validity test with the check of the content forgotten.
InvalidFileObjectPathOnly(f) == Falsy(f.path)

\* !f.path || typeof f.content === 'undefined'
InvalidFileObject(f) == Falsy(f.path) \/ TypeofUndefined(f.content)

\* The catch block with its res.status(500).json(...) forgotten.
CaughtSilent(i, res, message) == Segment("done", i, res, <<>>, <<>>)

\* The catch of the handler: res.status(500).json({ error: err.message })
Caught(i, res, message) ==
  Segment("done", i, res, <<ErrorResponse(500, message)>>, <<>>)

\* The loop with the await of getContent forgotten: the write is issued
\* while the read is still outstanding.
RECURSIVE LoopNoAwait(_, _, _)
LoopNoAwait(fs, i, res) ==
  IF i > Len(fs) THEN Segment("done", i, res, <<ResultsResponse(res)>>, <<>>)
  ELSE IF ~fs[i].obj THEN Caught(i, res, "TypeError: f is null")
  ELSE IF InvalidFileObject(fs[i])
    THEN LoopNoAwait(fs, i + 1, Append(res, SkippedResult(fs[i])))
  ELSE Segment("createOrUpdate", i, res, <<>>,
               <<GetContentCall(i, fs[i]),
                 CreateOrUpdateCall(i, fs[i], NoSha)>>)

\* The loop from the file at index i up to its next await: invalid
\* entries are skipped, a null entry throws on f.path, the first valid entry
\* has its getContent issued, and past the last entry the response is sent.
RECURSIVE Loop(_, _, _)
Loop(fs, i, res) ==
  IF i > Len(fs) THEN Segment("done", i, res, <<ResultsResponse(res)>>, <<>>)
  ELSE IF ~fs[i].obj THEN Caught(i, res, "TypeError: f is null")
  ELSE IF InvalidFileObject(fs[i])
    THEN Loop(fs, i + 1, Append(res, SkippedResult(fs[i])))
  ELSE Segment("getContent", i, res, <<>>, <<GetContentCall(i, fs[i])>>)

\* From the settlement of getContent to the next await: sha is set when the
\* answer carries one, the content is prepared (Buffer.from throws on a
\* content that is no string) and createOrUpdateFileContents is issued.
AfterGetContent(fs, i, res, sha) ==
  IF BufferFromThrows(fs[i].content)
    THEN Caught(i, res, "TypeError: invalid content")
  ELSE Segment("createOrUpdate", i, res, <<>>,
               <<CreateOrUpdateCall(i, fs[i], sha)>>)

\* The sha of the answer never taken over.
ShaAfterReadForgotten(outcome, returned) == NoSha

\* if (getRes && getRes.data && getRes.data.sha) sha = getRes.data.sha;
\* the catch leaves sha undefined.
ShaAfterRead(outcome, returned) ==
  IF outcome = "sha" /\ returned # NoSha THEN returned ELSE NoSha

\* The result pushed as "ok" whatever the outcome of the write.
AfterCreateOrUpdateAlwaysOk(fs, i, res, outcome, commitSha) ==
  Loop(fs, i + 1, Append(res, OkResult(fs[i], commitSha)))

\* A failed write tried again: the loop runs the same entry once more.
AfterCreateOrUpdateRetry(fs, i, res, outcome, commitSha) ==
  IF outcome = "ok"
    THEN Loop(fs, i + 1, Append(res, OkResult(fs[i], commitSha)))
  ELSE Loop(fs, i, res)

\* From the settlement of createOrUpdateFileContents to the next await: the
\* result of the file is pushed and the loop goes on.
\* The result pushed as "error" whatever the outcome of the write.
AfterCreateOrUpdateNeverOk(fs, i, res, outcome, commitSha) ==
  Loop(fs, i + 1, Append(res, ErrorResult(fs[i], "request failed")))

AfterCreateOrUpdate(fs, i, res, outcome, commitSha) ==
  Loop(fs, i + 1,
       Append(res, IF outcome = "ok" THEN OkResult(fs[i], commitSha)
                   ELSE ErrorResult(fs[i], "request failed")))

\* The handler with the test of files.length forgotten.
TasksStartAnyArray(r) ==
  IF ~isOriginAllowed(r)
    THEN Segment("done", 0, <<>>,
                 <<ErrorResponse(403, "origin not allowed")>>, <<>>)
  ELSE IF files[r].t # "array"
    THEN Segment("done", 0, <<>>,
                 <<ErrorResponse(400, "files array required")>>, <<>>)
  ELSE Loop(files[r].items, 1, <<>>)

\* The handler of POST /tasks up to its first await.
TasksStart(r) ==
  IF ~isOriginAllowed(r)
    THEN Segment("done", 0, <<>>,
                 <<ErrorResponse(403, "origin not allowed")>>, <<>>)
  ELSE IF files[r].t # "array" \/ Len(files[r].items) = 0
    THEN Segment("done", 0, <<>>,
                 <<ErrorResponse(400, "files array required")>>, <<>>)
  ELSE Loop(files[r].items, 1, <<>>)

\* ------------------------------------------------ the remote service
\* How a getContent for `key` can end, given the branch as it is when the
\* service answers: with the file's sha, with a directory listing (no
\* sha), with 404, or with any other failure (network, auth, rate limit).
ReadOutcomes(key) ==
  {"failed"} \cup
    (CASE repo[key].kind = "file" -> {"sha"}
       [] repo[key].kind = "dir" -> {"nosha"}
       [] OTHER -> {"notfound"})

\* A read answered from a copy of the branch taken before the requests.
ReadReturnedStale(key, outcome) ==
  IF outcome = "sha" THEN BlobSha(repo0[key].content) ELSE NoSha

ReadReturned(key, outcome) ==
  IF outcome = "sha" THEN BlobSha(repo[key].content) ELSE NoSha

\* Whether the service accepts the write: a create of a path that does not
\* exist, or an update that carries the current marker of the file.
WriteApplies(call) ==
  LET at == repo[PathKey(call.path)]
  IN \/ at.kind = "absent" /\ call.sha = NoSha
     \/ at.kind = "file" /\ call.sha = BlobSha(at.content)

\* How a createOrUpdateFileContents can end: rejected (auth, rate limit,
\* network; nothing written), refused by the service on the marker
\* ("conflict"; nothing written), or applied and then either answered ("ok")
\* or the answer lost on the way back ("lost").
WriteOutcomes(call) ==
  {"rejected"} \cup
    (IF WriteApplies(call) THEN {"ok", "lost"} ELSE {"conflict"})

\* The branch after the write is applied: the decoded content at the path.
RepoAfterWrite(call) ==
  [repo EXCEPT ![PathKey(call.path)] =
     File(BytesOfSextets(Sextets(UpToPad(call.content))))]

\* ---------------------------------------------------------------- actions
\* The last call of the log, settled: how it ended, what it returned and
\* what the service found at its path at that moment.
Settled(log, outcome, returned) ==
  [log EXCEPT ![Len(log)].outcome = outcome,
              ![Len(log)].returned = returned,
              ![Len(log)].found = repo[PathKey(log[Len(log)].path)].kind]

\* The results array declared once for the module instead of once for each
\* request: the segment of one request overwrites the results of all.
ReachSharedResults(r, log, seg) ==
  /\ pc' = [pc EXCEPT ![r] = seg.pc]
  /\ idx' = [idx EXCEPT ![r] = seg.idx]
  /\ results' = [q \in Reqs |-> seg.results]
  /\ responses' = [responses EXCEPT ![r] = responses[r] \o seg.responses]
  /\ calls' = [calls EXCEPT ![r] = log \o seg.calls]

\* The request moves to the end of a segment.
Reach(r, log, seg) ==
  /\ pc' = [pc EXCEPT ![r] = seg.pc]
  /\ idx' = [idx EXCEPT ![r] = seg.idx]
  /\ results' = [results EXCEPT ![r] = seg.results]
  /\ responses' = [responses EXCEPT ![r] = responses[r] \o seg.responses]
  /\ calls' = [calls EXCEPT ![r] = log \o seg.calls]

\* app.use(cors(corsOptions)): next() when the origin callback allows the
\* origin, next(err) otherwise, which Express answers itself.
CorsMiddleware(r) ==
  /\ pc[r] = "cors"
  /\ IF CorsOriginAllows(origin[r])
       THEN Reach(r, calls[r], Segment("route", 0, <<>>, <<>>, <<>>))
       ELSE Reach(r, calls[r],
                  Segment("done", 0, <<>>,
                          <<ExpressErrorResponse("Not allowed by CORS")>>,
                          <<>>))
  /\ UNCHANGED <<input, repo, commits>>

\* app.get('/health', ...)
HealthHandler(r) ==
  /\ pc[r] = "route"
  /\ route[r] = "GET /health"
  /\ Reach(r, calls[r], Segment("done", 0, <<>>, <<HealthResponse>>, <<>>))
  /\ UNCHANGED <<input, repo, commits>>

\* app.post('/tasks', ...) from its entry to its first await or response.
TasksHandler(r) ==
  /\ pc[r] = "route"
  /\ route[r] = "POST /tasks"
  /\ Reach(r, calls[r], TasksStart(r))
  /\ UNCHANGED <<input, repo, commits>>

\* await octokit.repos.getContent(...) settles.
GetContentSettles(r) ==
  /\ pc[r] = "getContent"
  /\ LET call == calls[r][Len(calls[r])]
         key == PathKey(call.path)
     IN \E outcome \in ReadOutcomes(key) :
          LET returned == ReadReturned(key, outcome)
          IN Reach(r, Settled(calls[r], outcome, returned),
                   AfterGetContent(files[r].items, idx[r], results[r],
                                   ShaAfterRead(outcome, returned)))
  /\ UNCHANGED <<input, repo, commits>>

\* await octokit.repos.createOrUpdateFileContents(...) settles.
CreateOrUpdateSettles(r) ==
  /\ pc[r] = "createOrUpdate"
  /\ LET call == calls[r][Len(calls[r])]
     IN \E outcome \in WriteOutcomes(call) :
          /\ IF outcome \in {"ok", "lost"}
               THEN /\ repo' = RepoAfterWrite(call)
                    /\ commits' = commits + 1
               ELSE UNCHANGED <<repo, commits>>
          /\ Reach(r, Settled(calls[r], outcome,
                              IF outcome = "ok" THEN <<commits'>> ELSE NoSha),
                   AfterCreateOrUpdate(files[r].items, idx[r], results[r],
                                       outcome, commits'))
  /\ UNCHANGED input

\* ------------------------------------------------------- specifications
\* The server after startup, with one request to handle.
Init ==
  /\ ALLOWED_ORIGINS \in AllowLists
  /\ repo \in InitialRepos
  /\ repo0 = repo
  /\ commits = 0
  /\ \E ro \in Routes, o \in Origins, a \in Ips :
       \E b \in (IF ro = "GET /health" THEN {FilesMissing} ELSE Bodies) :
         /\ route = [r \in Reqs |-> IF r = "r1" THEN ro ELSE "none"]
         /\ origin = [r \in Reqs |-> IF r = "r1" THEN o ELSE NoOrigin]
         /\ ip = [r \in Reqs |-> IF r = "r1" THEN a ELSE ""]
         /\ files = [r \in Reqs |-> IF r = "r1" THEN b ELSE FilesMissing]
  /\ pc = [r \in Reqs |-> IF r = "r1" THEN "cors" ELSE "unused"]
  /\ idx = [r \in Reqs |-> 0]
  /\ results = [r \in Reqs |-> <<>>]
  /\ calls = [r \in Reqs |-> <<>>]
  /\ responses = [r \in Reqs |-> <<>>]

Next ==
  \/ \E r \in Reqs : CorsMiddleware(r)
  \/ \E r \in Reqs : HealthHandler(r)
  \/ \E r \in Reqs : TasksHandler(r)
  \/ \E r \in Reqs : GetContentSettles(r)
  \/ \E r \in Reqs : CreateOrUpdateSettles(r)

Spec == Init /\ [][Next]_vars

\* The entries of two requests handled at the same time: file objects with
\* a string content, for the two paths of the branch.
ConcurrentEntries ==
  { FileObject(PathStr("a"), ContentStr(<<>>), ""),
    FileObject(PathNum("7"), ContentStr(Hi), "") }

\* The server after startup, with two requests in flight: a POST /tasks
\* with up to MaxFiles files, and a GET /health or a POST /tasks with one
\* file.
InitTwo ==
  /\ ALLOWED_ORIGINS = {}
  /\ repo \in InitialRepos
  /\ repo0 = repo
  /\ commits = 0
  /\ \E ro \in Routes :
       \E b1 \in { FilesArray(q) :
                     q \in SeqsUpTo(ConcurrentEntries, MaxFiles) \ {<<>>} },
          b2 \in (IF ro = "GET /health" THEN {FilesMissing}
                  ELSE { FilesArray(<<e>>) : e \in ConcurrentEntries }) :
         /\ route = [r \in Reqs |-> IF r = "r1" THEN "POST /tasks" ELSE ro]
         /\ files = [r \in Reqs |-> IF r = "r1" THEN b1 ELSE b2]
  /\ origin = [r \in Reqs |-> NoOrigin]
  /\ ip = [r \in Reqs |-> "10.0.0.1"]
  /\ pc = [r \in Reqs |-> "cors"]
  /\ idx = [r \in Reqs |-> 0]
  /\ results = [r \in Reqs |-> <<>>]
  /\ calls = [r \in Reqs |-> <<>>]
  /\ responses = [r \in Reqs |-> <<>>]

SpecTwo == InitTwo /\ [][Next]_vars

\* The event loop runs every handler and continuation that is ready, and
\* every call to the remote service returns.
RequestStep(r) ==
  \/ CorsMiddleware(r)
  \/ HealthHandler(r)
  \/ TasksHandler(r)
  \/ GetContentSettles(r)
  \/ CreateOrUpdateSettles(r)

Fairness == \A r \in Reqs : WF_vars(RequestStep(r))

\* The entries that take the four ways through the loop body: a null
\* entry, a skipped one, one that is written, one whose content makes
\* Buffer.from throw.
FairEntries ==
  { NullEntry,
    FileObject(PathStr("a"), NoContent, ""),
    FileObject(PathStr("a"), ContentStr(<<>>), ""),
    FileObject(PathStr("a"), NullContent, "") }

\* The server after startup with one request in flight, with or without an
\* allow-list, the request with or without a declared origin.
FairInit ==
  /\ ALLOWED_ORIGINS \in { {}, {"https://a.example"} }
  /\ repo \in InitialRepos
  /\ repo0 = repo
  /\ commits = 0
  /\ \E ro \in Routes, o \in {NoOrigin, "https://b.example"} :
       \E b \in (IF ro = "GET /health" THEN {FilesMissing}
                 ELSE {FilesMissing} \cup
                        { FilesArray(q) :
                            q \in SeqsUpTo(FairEntries, MaxFiles) }) :
         /\ route = [r \in Reqs |-> IF r = "r1" THEN ro ELSE "none"]
         /\ origin = [r \in Reqs |-> IF r = "r1" THEN o ELSE NoOrigin]
         /\ ip = [r \in Reqs |-> IF r = "r1" THEN "10.0.0.1" ELSE ""]
         /\ files = [r \in Reqs |-> IF r = "r1" THEN b ELSE FilesMissing]
  /\ pc = [r \in Reqs |-> IF r = "r1" THEN "cors" ELSE "unused"]
  /\ idx = [r \in Reqs |-> 0]
  /\ results = [r \in Reqs |-> <<>>]
  /\ calls = [r \in Reqs |-> <<>>]
  /\ responses = [r \in Reqs |-> <<>>]

FairSpec == FairInit /\ [][Next]_vars /\ Fairness

\* ------------------------------------------------- vocabulary of the claims
Done(r) == pc[r] = "done"
IsTasks(r) == route[r] = "POST /tasks"
Response(r) == responses[r][1]
Items(r) == files[r].items
NonEmptyArray(r) == files[r].t = "array" /\ Len(Items(r)) > 0

\* The origin a request is judged by: the declared one, or the source
\* address of a request that declares none.
EffectiveOrigin(r) == IF origin[r] # NoOrigin THEN origin[r] ELSE ip[r]

\* The requests the origin policy lets through.
OriginAccepted(r) ==
  ALLOWED_ORIGINS = {} \/ EffectiveOrigin(r) \in ALLOWED_ORIGINS

\* A path that is missing or empty; a content that is undefined.
PathMissing(f) == f.path.t = "undefined" \/ (f.path.t = "string" /\ f.path.v = "")
ContentUndefined(f) == f.content.t = "undefined"

\* A valid entry in the sense of the specification.
ValidFileSpec(f) ==
  /\ f.obj
  /\ f.path.t = "string" /\ f.path.v # ""
  /\ f.content.t # "undefined"

Indexes(q) == 1..Len(q)

\* Every element of the files array is a file object (none is null).
AllFileObjects(r) == \A i \in Indexes(Items(r)) : Items(r)[i].obj
IsRead(c) == c.op = "getContent"
IsWrite(c) == c.op = "createOrUpdateFileContents"

\* The path a result reports for an entry.
ReportedPath(f) == IF PathMissing(f) THEN NullPath ELSE f.path

\* C1: every POST /tasks request that passes the origin check with a
\* non-empty files array (of file objects) is answered 200 {ok:true,
\* results}, with one result per file, in the order of the files.
C1_OneResultPerFile ==
  \A r \in Reqs :
    (IsTasks(r) /\ Done(r) /\ OriginAccepted(r) /\ NonEmptyArray(r)
       /\ AllFileObjects(r)) =>
      /\ Response(r).kind = "results"
      /\ Response(r).status = 200
      /\ Len(Response(r).results) = Len(Items(r))
      /\ \A i \in Indexes(Items(r)) :
           /\ i <= Len(Response(r).results)
           /\ Response(r).results[i].path = ReportedPath(Items(r)[i])
           /\ Response(r).results[i].status \in {"ok", "skipped", "error"}

C3_CallsOnlyForValidEntries ==
  \A r \in Reqs : \A k \in Indexes(calls[r]) :
    ValidFileSpec(Items(r)[calls[r][k].idx])

\* The read that was issued right before the call at position k of the
\* log of r (the getContent of the same loop iteration).
ReadBefore(r, k) == calls[r][k - 1]

\* C4 as stated: the write of an entry whose path does not exist on the
\* branch carries no marker, and the write of an entry whose path exists
\* (as a file) carries the marker returned by the read before it.
C4_MarkerFollowsExistence ==
  \A r \in Reqs : \A k \in Indexes(calls[r]) :
    IsWrite(calls[r][k]) =>
      /\ k > 1 /\ IsRead(ReadBefore(r, k))
      /\ ReadBefore(r, k).found = "absent" => calls[r][k].sha = NoSha
      /\ ReadBefore(r, k).found = "file" =>
           /\ calls[r][k].sha # NoSha
           /\ calls[r][k].sha = ReadBefore(r, k).returned

\* C4, amended: every write is issued right after the read of the same
\* entry and path; it carries the marker that read returned when the read
\* succeeded and returned one, and no marker otherwise (the path does not
\* exist, the read failed though the path exists, or the answer has no sha).
C4_MarkerFollowsRead ==
  \A r \in Reqs : \A k \in Indexes(calls[r]) :
    IsWrite(calls[r][k]) =>
      /\ k > 1 /\ IsRead(ReadBefore(r, k))
      /\ ReadBefore(r, k).idx = calls[r][k].idx
      /\ ReadBefore(r, k).path = calls[r][k].path
      /\ ReadBefore(r, k).outcome = "sha" =>
           /\ calls[r][k].sha # NoSha
           /\ calls[r][k].sha = ReadBefore(r, k).returned
      /\ ReadBefore(r, k).outcome \in {"notfound", "failed", "nosha"} =>
           calls[r][k].sha = NoSha
      /\ ReadBefore(r, k).found = "absent" => calls[r][k].sha = NoSha

\* One request with a write that carries the marker its read returned, and
\* a write without marker for a file that exists but whose read failed.
C4_Witness ==
  \E r \in Reqs : \E j, k \in Indexes(calls[r]) :
    /\ IsWrite(calls[r][j]) /\ IsWrite(calls[r][k])
    /\ calls[r][j].sha # NoSha
    /\ calls[r][j].sha = ReadBefore(r, j).returned
    /\ ReadBefore(r, k).outcome = "failed"
    /\ ReadBefore(r, k).found = "file"
    /\ calls[r][k].sha = NoSha

\* C5: when the write of the file at index N fails, that entry is reported
\* as "error" and all the entries (file objects) are reported in the 200
\* response.
C5_WriteFailureDoesNotStopBatch ==
  \A r \in Reqs : \A k \in Indexes(calls[r]) :
    (Done(r) /\ AllFileObjects(r) /\ IsWrite(calls[r][k])
       /\ calls[r][k].outcome \in {"rejected", "conflict", "lost"}) =>
      /\ Response(r).status = 200
      /\ Response(r).kind = "results"
      /\ Len(Response(r).results) = Len(Items(r))
      /\ Response(r).results[calls[r][k].idx].status = "error"

\* C6: a request with an accepted origin and a non-empty files array (of
\* file objects) never ends with a top-level 500: whatever is wrong with one
\* entry is reported in that entry's result.
C6_PerFileFailuresInBand ==
  \A r \in Reqs :
    (IsTasks(r) /\ Done(r) /\ OriginAccepted(r) /\ NonEmptyArray(r)
       /\ AllFileObjects(r)) =>
      /\ Response(r).status # 500
      /\ Response(r).kind = "results"
      /\ \A i \in Indexes(Items(r)) : i <= Len(Response(r).results)

\* C7 as stated: a POST /tasks whose files is missing, no array or empty is
\* answered 400 {error: "files array required"}, and no call is made.
C7_BadFilesAnswered400 ==
  \A r \in Reqs :
    (IsTasks(r) /\ ~NonEmptyArray(r)) =>
      /\ calls[r] = <<>>
      /\ Done(r) => Response(r) = ErrorResponse(400, "files array required")

\* C7, amended: no call is made for a POST /tasks whose files is missing, no
\* array or empty, and it is answered 400 {error: "files array required"}
\* when its origin is accepted (it is rejected on its origin otherwise).
C7_BadFilesAnswered400WhenOriginAccepted ==
  \A r \in Reqs :
    (IsTasks(r) /\ ~NonEmptyArray(r)) =>
      /\ calls[r] = <<>>
      /\ (Done(r) /\ OriginAccepted(r)) =>
           Response(r) = ErrorResponse(400, "files array required")
      /\ (Done(r) /\ ~OriginAccepted(r)) => Response(r).status # 400

\* A request with an empty files array and an accepted declared origin,
\* under a non-empty allow-list, answered 400.
C7_Witness ==
  \E r \in Reqs :
    /\ IsTasks(r) /\ Done(r)
    /\ files[r] = FilesArray(<<>>)
    /\ ALLOWED_ORIGINS # {} /\ origin[r] \in ALLOWED_ORIGINS
    /\ Response(r) = ErrorResponse(400, "files array required")
    /\ calls[r] = <<>>

\* C8: under a non-empty allow-list a POST /tasks whose origin is not in
\* the list is answered 403 {error: "origin not allowed"} without any call;
\* under an empty allow-list no request is rejected on its origin.
C8_OriginPolicy ==
  \A r \in Reqs :
    (IsTasks(r) /\ Done(r)) =>
      /\ (ALLOWED_ORIGINS # {} /\ EffectiveOrigin(r) \notin ALLOWED_ORIGINS) =>
           /\ Response(r) = ErrorResponse(403, "origin not allowed")
           /\ calls[r] = <<>>
      /\ ALLOWED_ORIGINS = {} =>
           /\ Response(r).status # 403
           /\ Response(r).kind # "express-error"

\* C9: a POST /tasks that declares no origin is never answered 403.
C9_OriginlessAlwaysAllowed ==
  \A r \in Reqs :
    (IsTasks(r) /\ Done(r) /\ origin[r] = NoOrigin) =>
      Response(r).status # 403

\* C10: GET /health is answered {status: "ok"} without any call, whatever
\* the allow-list and the origin of the request.
C10_HealthAlwaysOk ==
  \A r \in Reqs :
    (route[r] = "GET /health" /\ Done(r)) =>
      /\ Response(r) = HealthResponse
      /\ calls[r] = <<>>

\* The positions in the log of r of the writes issued for the file at i.
WritesOf(r, i) ==
  { k \in Indexes(calls[r]) : IsWrite(calls[r][k]) /\ calls[r][k].idx = i }
ReadsOf(r, i) ==
  { k \in Indexes(calls[r]) : IsRead(calls[r][k]) /\ calls[r][k].idx = i }

\* The awaited write ended in an error (the promise was rejected).
WriteFailed(c) == c.outcome \in {"rejected", "conflict", "lost"}

Answered200(r) == Done(r) /\ Response(r).kind = "results"

\* C11: every result of a 200 response has one of three shapes: "ok" exactly
\* when the write call of its entry succeeded, with the commit identifier
\* that write returned and neither reason nor message; "error" exactly when
\* the write call of its entry failed, with a message and no commitSha;
\* "skipped" exactly when the entry failed the validation (path missing or
\* empty, content undefined), with a reason and no commitSha.
C11_ResultShapes ==
  \A r \in Reqs :
    Answered200(r) =>
      /\ Len(Response(r).results) = Len(Items(r))
      /\ \A i \in Indexes(Response(r).results) :
           LET res == Response(r).results[i]
               f == Items(r)[i]
           IN /\ res.status \in {"ok", "error", "skipped"}
              /\ res.status = "ok" <=>
                   \E k \in WritesOf(r, i) : calls[r][k].outcome = "ok"
              /\ res.status = "ok" =>
                   /\ \E k \in WritesOf(r, i) :
                        res.commitSha = calls[r][k].returned[1]
                   /\ res.commitSha # NoCommit
                   /\ res.reason = Absent /\ res.message = Absent
              /\ res.status = "error" <=>
                   \E k \in WritesOf(r, i) : WriteFailed(calls[r][k])
              /\ res.status = "error" =>
                   /\ res.message # Absent
                   /\ res.commitSha = NoCommit
                   /\ res.reason = Absent
              /\ res.status = "skipped" <=>
                   (PathMissing(f) \/ ContentUndefined(f))
              /\ res.status = "skipped" =>
                   /\ res.reason # Absent
                   /\ res.commitSha = NoCommit
                   /\ res.message = Absent

\* A 200 response that holds an "ok" result and an "error" result.
C11_Witness ==
  \E r \in Reqs :
    /\ Answered200(r)
    /\ \E i, j \in Indexes(Response(r).results) :
         /\ Response(r).results[i].status = "ok"
         /\ Response(r).results[j].status = "error"

Outstanding(r) ==
  { k \in Indexes(calls[r]) : calls[r][k].outcome = "pending" }

\* C12: the calls of one request form a sequential chain: at most one call
\* is outstanding, and it is the newest; a write is issued only after the
\* read of the same entry was answered; and no call for an entry is issued
\* before every call for the entries before it has completed.
C12_SequentialChain ==
  \A r \in Reqs :
    /\ Cardinality(Outstanding(r)) <= 1
    /\ \A k \in Outstanding(r) : k = Len(calls[r])
    /\ Outstanding(r) # {} <=> pc[r] \in {"getContent", "createOrUpdate"}
    /\ \A k \in Indexes(calls[r]) :
         IsWrite(calls[r][k]) =>
           /\ k > 1
           /\ IsRead(calls[r][k - 1])
           /\ calls[r][k - 1].idx = calls[r][k].idx
           /\ calls[r][k - 1].outcome # "pending"
    /\ \A j, k \in Indexes(calls[r]) :
         j < k =>
           /\ calls[r][j].idx <= calls[r][k].idx
           /\ calls[r][j].outcome # "pending"

\* A request awaiting the write of its second entry, the read and the write
\* of its first entry and the read of its second entry answered.
C12_Witness ==
  \E r \in Reqs :
    /\ Len(calls[r]) = 4
    /\ calls[r][1].idx = 1 /\ calls[r][2].idx = 1
    /\ calls[r][3].idx = 2 /\ calls[r][4].idx = 2
    /\ calls[r][4].outcome = "pending"
    /\ pc[r] = "createOrUpdate"

\* C13: no call is retried: for each file of a request at most one read
\* and at most one write are issued, however those calls end.
C13_NoRetry ==
  \A r \in Reqs : \A i \in Indexes(Items(r)) :
    /\ Cardinality(ReadsOf(r, i)) <= 1
    /\ Cardinality(WritesOf(r, i)) <= 1

\* A finished request whose first entry had its read fail and its write
\* rejected, each issued once.
C13_Witness ==
  \E r \in Reqs :
    /\ Done(r)
    /\ \E j \in ReadsOf(r, 1) : calls[r][j].outcome = "failed"
    /\ \E k \in WritesOf(r, 1) : calls[r][k].outcome \in {"rejected", "conflict"}
    /\ Cardinality(ReadsOf(r, 1)) = 1
    /\ Cardinality(WritesOf(r, 1)) = 1

\* C14: when the read of a valid entry fails (not found or any other
\* failure), the write of that entry is issued all the same, without
\* marker, and the result of the entry follows the outcome of that write
\* alone.
C14_ReadFailureSwallowed ==
  \A r \in Reqs : \A k \in Indexes(calls[r]) :
    LET i == calls[r][k].idx
    IN (/\ IsRead(calls[r][k])
        /\ calls[r][k].outcome \in {"failed", "notfound"}
        /\ ValidFileSpec(Items(r)[i])) =>
         /\ k < Len(calls[r])
         /\ IsWrite(calls[r][k + 1])
         /\ calls[r][k + 1].idx = i
         /\ calls[r][k + 1].sha = NoSha
         /\ idx[r] > i =>
              /\ i <= Len(results[r])
              /\ results[r][i].status =
                   (IF calls[r][k + 1].outcome = "ok" THEN "ok" ELSE "error")

\* Every call of r was answered without a transient failure: no read failed
\* for another reason than "not found", no write was rejected for another
\* reason than its marker, no answer was lost.
Reliable(r) ==
  \A k \in Indexes(calls[r]) :
    calls[r][k].outcome \notin {"failed", "rejected", "lost"}

\* What a request with the files fs is answered when it runs alone, from
\* the branch rp, with a service that answers reliably: the status of the
\* response and the statuses of its results.  i is the next index, st the
\* statuses so far.
RECURSIVE Alone(_, _, _, _)
Alone(rp, fs, i, st) ==
  IF i > Len(fs) THEN [status |-> 200, statuses |-> st, repo |-> rp]
  ELSE IF ~fs[i].obj THEN [status |-> 500, statuses |-> <<>>, repo |-> rp]
  ELSE IF PathMissing(fs[i]) \/ ContentUndefined(fs[i])
    THEN Alone(rp, fs, i + 1, Append(st, "skipped"))
  ELSE IF fs[i].content.t # "string"
    THEN [status |-> 500, statuses |-> <<>>, repo |-> rp]
  ELSE IF rp[fs[i].path.v].kind = "dir"
    THEN Alone(rp, fs, i + 1, Append(st, "error"))
  ELSE Alone([rp EXCEPT ![fs[i].path.v] =
                [kind |-> "file",
                 content |-> IF fs[i].encoding = "base64"
                               THEN BytesOfSextets(Sextets(UpToPad(fs[i].content.v)))
                             ELSE fs[i].content.v]],
             fs, i + 1, Append(st, "ok"))

Statuses(res) == [i \in Indexes(res) |-> res[i].status]

\* The paths a request writes.
WrittenPaths(r) ==
  { Items(r)[i].path.v :
      i \in { j \in Indexes(Items(r)) :
                /\ Items(r)[j].obj
                /\ ~PathMissing(Items(r)[j])
                /\ ~ContentUndefined(Items(r)[j]) } }

SameAsAlone(r) ==
  LET alone == Alone(repo0, Items(r), 1, <<>>)
  IN /\ Response(r).status = alone.status
     /\ Statuses(Response(r).results) = alone.statuses

\* C15 as stated: two requests in flight at the same time are independent:
\* whatever the interleaving of their calls, each is answered (with a
\* reliable service) as if it ran alone, also when both write the same path.
C15_Independent ==
  \A r \in Reqs :
    (/\ IsTasks(r) /\ Done(r) /\ NonEmptyArray(r)
     /\ OriginAccepted(r) /\ \A q \in Reqs : Reliable(q)) =>
      SameAsAlone(r)

\* C15, amended: two requests in flight at the same time that write no path
\* in common are independent: whatever the interleaving of their calls, each
\* is answered (with a reliable service) with the statuses it would get if
\* it ran alone.
C15_IndependentOnDisjointPaths ==
  \A r \in Reqs :
    (/\ IsTasks(r) /\ Done(r) /\ NonEmptyArray(r)
     /\ OriginAccepted(r) /\ \A q \in Reqs : Reliable(q)
     /\ \A q \in Reqs \ {r} : WrittenPaths(q) \cap WrittenPaths(r) = {}) =>
      SameAsAlone(r)

\* Two finished requests that wrote different paths, their calls
\* interleaved: each issued a call while a call of the other was outstanding.
C15_Witness ==
  /\ \A r \in Reqs : Answered200(r) /\ Reliable(r) /\ calls[r] # <<>>
  /\ WrittenPaths("r1") \cap WrittenPaths("r2") = {}
  /\ \A r \in Reqs : \E k \in Indexes(calls[r]) : calls[r][k].outcome = "ok"
  /\ commits >= 2

\* Entries i and j of the request name the same path, both with a string
\* content, and no entry between them names that path.
SamePathTwice(r, i, j) ==
  /\ i \in Indexes(Items(r)) /\ j \in Indexes(Items(r)) /\ i < j
  /\ ValidFileSpec(Items(r)[i]) /\ Items(r)[i].content.t = "string"
  /\ ValidFileSpec(Items(r)[j]) /\ Items(r)[j].content.t = "string"
  /\ PathKey(Items(r)[i].path) = PathKey(Items(r)[j].path)
  /\ \A k \in (i + 1)..(j - 1) :
       ValidFileSpec(Items(r)[k]) =>
         PathKey(Items(r)[k].path) # PathKey(Items(r)[i].path)

\* The bytes an entry asks to store.
Bytes(f) == BufferFrom(f.content, f.encoding)

\* For entries i < j of the same path, both processed: the write of j carries
\* the marker of what the write of i stored, both results are "ok", and once
\* the request is done with j the last entry of that path, the branch holds
\* the bytes of j.
SecondSeesFirst(r, i, j) ==
  /\ \A k \in WritesOf(r, j) :
       calls[r][k].sha = BlobSha(Bytes(Items(r)[i]))
  /\ results[r][i].status = "ok"
  /\ results[r][j].status = "ok"
  /\ (/\ Done(r)
      /\ \A k \in (j + 1)..Len(Items(r)) : ~SamePathTwice(r, j, k)) =>
       repo[PathKey(Items(r)[j].path)] = File(Bytes(Items(r)[j]))

OkEntries(r) == { i \in Indexes(results[r]) : results[r][i].status = "ok" }
OkWrites(r) ==
  { k \in Indexes(calls[r]) :
      IsWrite(calls[r][k]) /\ calls[r][k].outcome = "ok" }
AppliedWrites(r) ==
  { k \in Indexes(calls[r]) :
      IsWrite(calls[r][k]) /\ calls[r][k].outcome \in {"ok", "lost"} }

\* r is the only request that called the remote service.
OnlyCaller(r) == \A q \in Reqs \ {r} : calls[q] = <<>>

\* C17 as stated: a request answered with 200 added as many commits as it
\* has "ok" results, and the paths of its "skipped" and "error" entries are
\* as they were unless an "ok" entry names them; a request answered with 400
\* or 403 left the branch unchanged.
C17_CommitsEqualOkResults ==
  \A r \in Reqs :
    (IsTasks(r) /\ Done(r) /\ OnlyCaller(r)) =>
      /\ Answered200(r) =>
           /\ commits = Cardinality(OkEntries(r))
           /\ \A p \in RepoPaths :
                (\A i \in OkEntries(r) : PathKey(Items(r)[i].path) # p) =>
                  repo[p] = repo0[p]
      /\ Response(r).status \in {400, 403} =>
           commits = 0 /\ repo = repo0

\* C17, amended: a request added as many commits as the service applied
\* writes of it, one commit for each; it has one "ok" result for each write
\* answered with a commit, so no more "ok" results than commits, and one
\* "error" result more than that for each write applied with its answer
\* lost; a path that no applied write names is as it was; "skipped" entries
\* caused no call, and a request answered with 400 or 403 caused no call
\* and left the branch unchanged.
C17_CommitsEqualAppliedWrites ==
  \A r \in Reqs :
    OnlyCaller(r) =>
      /\ commits = Cardinality(AppliedWrites(r))
      /\ Cardinality(OkEntries(r)) = Cardinality(OkWrites(r))
      /\ \A i \in OkEntries(r) :
           \E k \in OkWrites(r) :
             calls[r][k].idx = i /\ results[r][i].commitSha = calls[r][k].returned[1]
      /\ \A p \in RepoPaths :
           (\A k \in AppliedWrites(r) : PathKey(calls[r][k].path) # p) =>
             repo[p] = repo0[p]
      /\ \A i \in Indexes(results[r]) :
           results[r][i].status = "skipped" =>
             WritesOf(r, i) = {} /\ ReadsOf(r, i) = {}
      /\ (Done(r) /\ Response(r).status \in {400, 403}) =>
           calls[r] = <<>> /\ commits = 0 /\ repo = repo0

\* A request answered with 200 after two commits, with an "ok" result, an
\* "error" result whose write was applied, and the branch changed.
C17_Witness ==
  \E r \in Reqs :
    /\ Answered200(r) /\ OnlyCaller(r)
    /\ commits = 2
    /\ Cardinality(OkEntries(r)) = 1
    /\ \E k \in AppliedWrites(r) : calls[r][k].outcome = "lost"
    /\ repo # repo0

\* One response, with one of the statuses of the endpoint.
OneResponse(r) ==
  /\ Len(responses[r]) = 1
  /\ Response(r).status \in {200, 400, 403, 500}

\* C18: every call to the remote service returning, every POST /tasks
\* request eventually receives a response, with status 200, 400, 403 or
\* 500; it never receives a second one, and no path through the handler
\* ends without one.
C18_ExactlyOneResponse ==
  /\ [](\A r \in Reqs :
          IsTasks(r) =>
            /\ Len(responses[r]) <= 1
            /\ Done(r) => OneResponse(r))
  /\ \A r \in Reqs :
       (IsTasks(r) /\ ~Done(r)) ~> (Done(r) /\ OneResponse(r))

\* A request answered once by the catch block, after a call had returned.
C18_Witness ==
  \E r \in Reqs :
    /\ IsTasks(r) /\ Done(r) /\ OneResponse(r)
    /\ Response(r).status = 500
    /\ calls[r] # <<>>
    /\ calls[r][Len(calls[r])].outcome # "pending"

====
